---- MODULE Spec2Model ----
(***************************************************************************)
(* Maestro RAG engine (src/src/maestro_rag/engine.py): the persistent      *)
(* vector store, the in-memory BM25 index, the skill fingerprint registry  *)
(* and the query cache of one MaestroEngine, driven by index(), search()   *)
(* and engine construction, plus the Chunker's id assignment.              *)
(*                                                                         *)
(* Conventions.                                                            *)
(*  - A Python Optional is a sequence of length 0 (None) or 1.             *)
(*  - Cosine similarities are carried in thousandths (0.92 is 920); the    *)
(*    embedding vectors of the model all have an integer norm, so the      *)
(*    division of _cosine is exact on them.                                *)
(*  - md5 is taken to be injective on the raw id string, and the raw id    *)
(*    string is the tuple of its four fields.                              *)
(*  - The vector store is the VectorStore contract: an id-keyed collection *)
(*    whose add() leaves one entry per id.                                 *)
(***************************************************************************)
EXTENDS Integers, Sequences, FiniteSets, TLC

VARIABLES
    store,          \* ids held by the persistent vector store (collection)
    meta,           \* INDEX_META file exists on disk
    collection,     \* self._collection is not None
    indexed,        \* self._indexed
    fingerprints,   \* self._fingerprints: skill name -> fingerprint
    bm25,           \* self._bm25._ids (one entry per fitted document)
    cache,          \* self._cache, in insertion order
    config,         \* self.config
    last,           \* the last engine call and what it handed back
    ck_skill,       \* Chunker run: skill name of the directory
    ck_tree,        \* Chunker run: the *.md files of the directory
    ck_chunks,      \* Chunker run: the chunks produced
    ck_pc,          \* Chunker run: "input" or "done"
    ck_unreadable,  \* Chunker run: the paths whose read_text raises an IO error
    ck_errors,      \* Chunker run: the errors list of index()
    ck_raised,      \* Chunker run: index() raised
    sp_max,         \* _split_long run: self.max_tokens
    sp_words,       \* _split_long run: text.split()
    sp_i,           \* _split_long run: the words the loop has consumed
    sp_current,     \* _split_long run: current
    sp_chunks,      \* _split_long run: chunks
    sp_pc,          \* _split_long run: "input", "loop" or "done"
    fn_args,        \* run of a function without state: its arguments
    fn_ret,         \* run of a function without state: what it returned
    fn_pc           \* run of a function without state: "call" or "done"

vars == <<store, meta, collection, indexed, fingerprints, bm25, cache, config,
          last, ck_skill, ck_tree, ck_chunks, ck_pc, ck_unreadable, ck_errors,
          ck_raised, sp_max, sp_words, sp_i, sp_current, sp_chunks, sp_pc,
          fn_args, fn_ret, fn_pc>>

engineVars == <<store, meta, collection, indexed, fingerprints, bm25, cache,
                config, last>>

splitVars == <<sp_max, sp_words, sp_i, sp_current, sp_chunks, sp_pc>>

fnVars == <<fn_args, fn_ret, fn_pc>>

chunkerVars == <<ck_skill, ck_tree, ck_chunks, ck_pc, ck_unreadable, ck_errors,
                 ck_raised, splitVars, fnVars>>

----------------------------------------------------------------------------
(* Bounds and program constants *)

MaxTopK == 1

ConfigTopK == 7

RerankerCandidates == 20

BatchSize == 64

CacheSimilarity == 920

RRF_K == 60

\* Config.chunk_max_tokens
ChunkMaxTokens == 400

----------------------------------------------------------------------------
(* Generic helpers *)

Min(a, b) == IF a <= b THEN a ELSE b

Max(a, b) == IF a >= b THEN a ELSE b

\* Python's s[:n], a negative n counting from the end.
Take(s, n) == IF n >= 0 THEN SubSeq(s, 1, Min(n, Len(s))) ELSE SubSeq(s, 1, Max(Len(s) + n, 0))

Range(s) == {s[i] : i \in 1..Len(s)}

RECURSIVE ConcatAll(_)
ConcatAll(ss) == IF ss = <<>> THEN <<>> ELSE Head(ss) \o ConcatAll(Tail(ss))

\* The first occurrence of every element of s, in order (keys of a dict
\* filled in the order of s).
RECURSIVE Dedup(_)
Dedup(s) ==
    IF s = <<>> THEN <<>>
    ELSE LET r == Dedup(SubSeq(s, 1, Len(s) - 1))
             x == s[Len(s)]
         IN IF x \in Range(r) THEN r ELSE Append(r, x)

\* Python's stable sort with reverse=True: descending by key[x], equal keys
\* keep their order.
RECURSIVE InsertDesc(_, _, _)
InsertDesc(x, s, key) ==
    IF s = <<>> THEN <<x>>
    ELSE IF key[Head(s)] >= key[x] THEN <<Head(s)>> \o InsertDesc(x, Tail(s), key)
    ELSE <<x>> \o s

RECURSIVE SortDesc(_, _)
SortDesc(s, key) ==
    IF s = <<>> THEN <<>>
    ELSE InsertDesc(s[Len(s)], SortDesc(SubSeq(s, 1, Len(s) - 1), key), key)

RECURSIVE SumSeq(_)
SumSeq(s) == IF s = <<>> THEN 0 ELSE Head(s) + SumSeq(Tail(s))

IndexOf(s, x) == CHOOSE i \in 1..Len(s) : s[i] = x /\ \A j \in 1..(i - 1) : s[j] # x

----------------------------------------------------------------------------
(* Chunker *)

\* The body of one window: prefix is sub[:50], rest is sub[50:].
Text(p, r) == [prefix |-> p, rest |-> r]

Section(t, subs) == [title |-> t, subs |-> subs]

File(d, n, secs) == [dir |-> d, name |-> n, sections |-> secs]

HashId(skill_name, name, section_title, prefix) ==
    <<skill_name, name, section_title, prefix>>

Chunk(skill_name, f, sec, sub) ==
    [id        |-> HashId(skill_name, f.name, sec.title, sub.prefix),
     text      |-> sub,
     skill     |-> skill_name,
     file      |-> f.name,
     file_path |-> <<f.dir, f.name>>,
     section   |-> sec.title]

chunk_file(f, skill_name) ==
    ConcatAll([j \in 1..Len(f.sections) |->
        [i \in 1..Len(f.sections[j].subs) |->
            Chunk(skill_name, f, f.sections[j], f.sections[j].subs[i])]])

Hidden(name) == name \in {".h.md"}

\* The inner loop of index() over skill_dir.rglob("*.md").
SkillChunks(skill_name, tree) ==
    ConcatAll([k \in 1..Len(tree) |->
        IF Hidden(tree[k].name) THEN <<>> ELSE chunk_file(tree[k], skill_name)])

Ids(chunks) == {chunks[i].id : i \in 1..Len(chunks)}

IdSeq(chunks) == [i \in 1..Len(chunks) |-> chunks[i].id]

----------------------------------------------------------------------------
(* The corpus on disk and the providers' answers *)

Skills == {"a", "b"}

SkillOrder == <<"a", "b">>

Queries == {"q1", "q2", "q3"}

\* What the skill directories can hold when index() reads them.
TreesOf(skill_name) ==
    IF skill_name = "a"
    THEN { <<>>,
           <<File(".", "f.md", <<Section("s", <<Text("p", "r1")>>)>>)>>,
           <<File(".", "f.md", <<Section("s", <<Text("p", "r1")>>)>>),
             File(".", "g.md", <<Section("t", <<Text("q", "r1")>>)>>)>> }
    ELSE { <<>>,
           <<File(".", "f.md", <<Section("s", <<Text("p", "r1")>>)>>)>> }

Corpora == {corp \in [Skills -> UNION {TreesOf(s) : s \in Skills}] :
                \A s \in Skills : corp[s] \in TreesOf(s)}

A1 == HashId("a", "f.md", "s", "p")

A2 == HashId("a", "g.md", "t", "q")

B1 == HashId("b", "f.md", "s", "p")

\* The order in which the store lists its entries.
IdOrder == <<A1, A2, B1>>

SkillOfId(id) == id[1]

\* Embedder.embed_query / embed_documents: fixed vectors of norm 25.
EmbedQuery(text) ==
    CASE text = "q1" -> <<24, 7>>
      [] text = "q2" -> <<20, 15>>
      [] OTHER       -> <<15, 20>>

EmbedFingerprint(skill_name) == IF skill_name = "a" THEN <<25, 0>> ELSE <<0, 25>>

EmbedChunk(id) ==
    CASE id = A1 -> <<24, 7>>
      [] id = A2 -> <<7, 24>>
      [] OTHER   -> <<15, 20>>

\* BM25._tokenize of the query and of the chunk bodies.
QueryTokens(text) ==
    CASE text = "q1" -> {"x"}
      [] text = "q2" -> {"x", "y"}
      [] OTHER       -> {"z"}

ChunkTokens(id) ==
    CASE id = A1 -> {"x"}
      [] id = A2 -> {"y"}
      [] OTHER   -> {"x", "z"}

\* CrossEncoder.predict on (query, chunk text).
PredictScore(query, id) ==
    CASE id = A1 -> IF query = "q1" THEN 1 ELSE 5
      [] id = A2 -> IF query = "q1" THEN 7 ELSE 2
      [] OTHER   -> 4

Dot(a, b) == a[1] * b[1] + a[2] * b[2]

Sqrt(n) == CHOOSE r \in 0..n : r * r = n

\* _cosine, in thousandths.
cosine(a, b) ==
    LET na == Sqrt(Dot(a, a))
        nb == Sqrt(Dot(b, b))
    IN IF na # 0 /\ nb # 0 THEN (Dot(a, b) * 1000) \div (na * nb) ELSE 0

\* Every vector the embedder returns in the model, and _cosine tabulated on them.
Vectors ==
    {EmbedQuery(q) : q \in Queries} \cup {EmbedFingerprint(n) : n \in Skills}
    \cup {EmbedChunk(id) : id \in Range(IdOrder)}

CosineTable == [a \in Vectors, b \in Vectors |-> cosine(a, b)]

Cosine(a, b) == CosineTable[a, b]

----------------------------------------------------------------------------
(* MaestroEngine.index *)

NoFingerprints == [n \in {} |-> 0]

SkillFingerprint(count, emb) == [chunk_count |-> count, embedding |-> emb]

FpPut(fps, name, fp) ==
    [n \in (DOMAIN fps) \cup {name} |-> IF n = name THEN fp ELSE fps[n]]

discover_skills == SkillOrder

\* paths or self._discover_skills()
SkillDirs(paths) ==
    IF paths = {} THEN discover_skills
    ELSE SelectSeq(SkillOrder, LAMBDA s : s \in paths)

AllChunks(dirs, corp) ==
    ConcatAll([i \in 1..Len(dirs) |-> SkillChunks(dirs[i], corp[dirs[i]])])

\* The fingerprints the loop over skill_dirs leaves: a fresh one, without
\* embedding, for every skill that produced a chunk.
RECURSIVE RecordFingerprints(_, _, _)
RecordFingerprints(fps, dirs, corp) ==
    IF dirs = <<>> THEN fps
    ELSE LET n == Len(SkillChunks(Head(dirs), corp[Head(dirs)]))
         IN RecordFingerprints(
                IF n > 0 THEN FpPut(fps, Head(dirs), SkillFingerprint(n, FALSE)) ELSE fps,
                Tail(dirs), corp)

NumBatches(n) == (n + BatchSize - 1) \div BatchSize

NoFail == [at |-> "none", batch |-> 0]

\* Where the providers can fail during one index() call over `chunks`.
FailPoints(chunks, coll) ==
    {NoFail}
    \cup (IF chunks # <<>> THEN {[at |-> "fingerprints", batch |-> 0]} ELSE {})
    \cup (IF chunks # <<>> /\ coll
          THEN {[at |-> "store", batch |-> k] : k \in 0..(NumBatches(Len(chunks)) - 1)}
          ELSE {})

\* _store_chunks: the store it leaves and whether it raised.
store_chunks(st, coll, chunks, force, del_fails, fail) ==
    IF ~coll THEN [store |-> st, raised |-> FALSE]
    ELSE LET cleared == IF force /\ ~del_fails THEN {} ELSE st
             stops   == fail.at = "store"
             done    == IF stops THEN fail.batch * BatchSize ELSE Len(chunks)
         IN [store |-> cleared \cup Ids(Take(chunks, done)), raised |-> stops]

embed_fingerprints(fps) ==
    [n \in DOMAIN fps |-> SkillFingerprint(fps[n].chunk_count, TRUE)]

build_bm25(chunks) == IdSeq(chunks)

\* index(paths, force) on engine state e: the state it leaves, whether it
\* raised, and the chunks it produced.
index(e, paths, force, corp, del_fails, fail) ==
    LET dirs   == SkillDirs(paths)
        chunks == AllChunks(dirs, corp)
        fps    == RecordFingerprints(e.fingerprints, dirs, corp)
        sc     == store_chunks(e.store, e.collection, chunks, force, del_fails, fail)
        base   == [store |-> e.store, meta |-> e.meta, collection |-> e.collection,
                   indexed |-> e.indexed, fingerprints |-> fps, bm25 |-> e.bm25,
                   raised |-> FALSE, chunks |-> chunks]
    IN IF chunks = <<>> THEN base
       ELSE IF sc.raised THEN [base EXCEPT !.store = sc.store, !.raised = TRUE]
       ELSE IF fail.at = "fingerprints"
            THEN [base EXCEPT !.store = sc.store, !.raised = TRUE]
       ELSE [base EXCEPT !.store = sc.store,
                         !.fingerprints = embed_fingerprints(fps),
                         !.bm25 = build_bm25(chunks),
                         !.meta = TRUE,
                         !.indexed = TRUE]

Engine == [store |-> store, meta |-> meta, collection |-> collection,
           indexed |-> indexed, fingerprints |-> fingerprints, bm25 |-> bm25]

----------------------------------------------------------------------------
(* MaestroEngine.search: the pipeline *)

\* matched[:8]
MatchCap == 8

\* Every skill within 40% of the top score is returned.
match_scores_uncapped(names, scores) ==
    LET sorted == SortDesc(names, scores)
    IN SelectSeq(sorted, LAMBDA n : 10 * scores[n] >= 6 * scores[sorted[1]])

\* Lines 559-563 of _match_skills, for the skills that have an embedding and
\* their similarities (in thousandths): sort, threshold and cap.
match_scores(names, scores) ==
    LET sorted == SortDesc(names, scores)
    IN Take(SelectSeq(sorted, LAMBDA n : 10 * scores[n] >= 6 * scores[sorted[1]]), MatchCap)

\* _match_skills. The registry is read in SkillOrder.
match_skills(fps, query_emb) ==
    LET names  == SelectSeq(SkillOrder, LAMBDA n : n \in DOMAIN fps /\ fps[n].embedding)
        scores == [n \in Skills |-> Cosine(query_emb, EmbedFingerprint(n))]
    IN IF names = <<>> THEN <<>> ELSE match_scores(names, scores)

\* collection.query without the where filter.
semantic_search_unfiltered(e, query_emb, top_k, matched) ==
    IF ~e.collection \/ e.store = {} THEN <<>>
    ELSE LET n_results == Min(top_k, Cardinality(e.store))
             sims      == [id \in Range(IdOrder) |-> Cosine(query_emb, EmbedChunk(id))]
             allowed   == SelectSeq(IdOrder, LAMBDA id : id \in e.store)
         IN Take(SortDesc(allowed, sims), n_results)

\* _semantic_search: the ids of collection.query, nearest first.
semantic_search(e, query_emb, top_k, matched) ==
    IF ~e.collection \/ e.store = {} THEN <<>>
    ELSE LET n_results == Min(top_k, Cardinality(e.store))
             sims      == [id \in Range(IdOrder) |-> Cosine(query_emb, EmbedChunk(id))]
             allowed   == SelectSeq(IdOrder, LAMBDA id :
                              /\ id \in e.store
                              /\ (matched = <<>> \/ SkillOfId(id) \in Range(matched)))
         IN Take(SortDesc(allowed, sims), n_results)

\* BM25.score: the ids with a positive score, best first. A document scores
\* above zero exactly when it holds a query token; the number of query tokens
\* it holds stands for the BM25 sum.
bm25_score(ids, query, top_k) ==
    LET s      == [id \in Range(IdOrder) |-> Cardinality(QueryTokens(query) \cap ChunkTokens(id))]
        scored == Dedup(SelectSeq(ids, LAMBDA id : s[id] > 0))
    IN Take(SortDesc(scored, s), top_k)

RECURSIVE Product(_)
Product(s) == IF s = <<>> THEN 1 ELSE Head(s) * Product(Tail(s))

\* Common denominator of the RRF terms 1 / (k + rank + 1) of the model.
RRFDen == Product([r \in 1..Len(IdOrder) |-> RRF_K + r])

\* The rank counted from one.
RRFTermOneBased(rank) == RRFDen \div (RRF_K + rank)

RRFTerm(rank) == RRFDen \div (RRF_K + rank + 1)

RankIn(s, id) == IF id \in Range(s) THEN <<IndexOf(s, id) - 1>> ELSE <<>>

SearchResult(id, num, den, sem_rank, bm_rank, rr) ==
    [id |-> id, final_score |-> [num |-> num, den |-> den],
     semantic_rank |-> sem_rank, bm25_rank |-> bm_rank, rerank_score |-> rr]

\* Lines 591-601 and 620-641 of _rrf_fuse: the scores summed and the results
\* built, best first, for the ids the store returned.
rrf_results(e, sem, bm) ==
    LET all_ids == Dedup(sem \o bm)
        rrf     == [id \in Range(IdOrder) |->
                       (IF id \in Range(sem) THEN RRFTerm(IndexOf(sem, id) - 1) ELSE 0)
                     + (IF id \in Range(bm) THEN RRFTerm(IndexOf(bm, id) - 1) ELSE 0)]
        ranked  == SelectSeq(SortDesc(all_ids, rrf), LAMBDA id : id \in e.store)
    IN [i \in 1..Len(ranked) |->
           SearchResult(ranked[i], rrf[ranked[i]], RRFDen,
                        RankIn(sem, ranked[i]), RankIn(bm, ranked[i]), <<>>)]

\* The results are built although the collection is missing.
rrf_fuse_unguarded(e, sem, bm) == rrf_results(e, sem, bm)

\* _rrf_fuse over the semantic and the lexical ranking; collection.get on a
\* missing collection raises inside the try and [] is returned.
rrf_fuse(e, sem, bm) ==
    IF sem \o bm = <<>> \/ ~e.collection THEN <<>> ELSE rrf_results(e, sem, bm)

\* Lines 647-653 of _rerank: every result scored and the list re-sorted.
rerank_scored(query, results) ==
    LET scored == [i \in 1..Len(results) |->
                      SearchResult(results[i].id, PredictScore(query, results[i].id), 1,
                                   results[i].semantic_rank, results[i].bm25_rank,
                                   <<PredictScore(query, results[i].id)>>)]
        key    == [r \in Range(scored) |-> r.final_score.num]
    IN SortDesc(scored, key)

\* A failing cross-encoder empties the list.
rerank_or_nothing(query, results, rerank_ok) ==
    IF ~rerank_ok THEN <<>> ELSE rerank_scored(query, results)

\* _rerank: the list scored and re-sorted, or, when the cross-encoder cannot
\* be loaded or fails, the list as it was.
rerank(query, results, rerank_ok) ==
    IF ~rerank_ok THEN results ELSE rerank_scored(query, results)

SearchResponse(query, results, from_cache) ==
    [query |-> query, results |-> results,
     skills_used |-> {SkillOfId(results[i].id) : i \in 1..Len(results)},
     from_cache |-> from_cache]

\* search_query of the model's queries: none holds a concept of the graph.
search_query(query) == query

\* Lines 399-421 of search(): the fused candidates, before reranking.
fused_candidates(e, cfg, query, top_k) ==
    LET query_emb      == EmbedQuery(search_query(query))
        sem_candidates == IF cfg.reranker_enabled THEN RerankerCandidates ELSE top_k * 2
    IN rrf_fuse(e, semantic_search(e, query_emb, sem_candidates,
                                   match_skills(e.fingerprints, query_emb)),
                bm25_score(e.bm25, search_query(query), sem_candidates))

\* The list is cut to top_k before it is reranked.
pipeline_cut_first(e, cfg, query, top_k, rerank_ok) ==
    LET fused == Take(fused_candidates(e, cfg, query, top_k), top_k)
    IN SearchResponse(query,
                      IF cfg.reranker_enabled /\ fused # <<>>
                      THEN rerank(query, fused, rerank_ok) ELSE fused,
                      FALSE)

\* Lines 399-431 of search(): the response of the full pipeline.
pipeline(e, cfg, query, top_k, rerank_ok) ==
    LET query_emb      == EmbedQuery(search_query(query))
        matched_skills == match_skills(e.fingerprints, query_emb)
        sem_candidates == IF cfg.reranker_enabled THEN RerankerCandidates ELSE top_k * 2
        sem_results    == semantic_search(e, query_emb, sem_candidates, matched_skills)
        bm25_results   == bm25_score(e.bm25, search_query(query), sem_candidates)
        fused          == rrf_fuse(e, sem_results, bm25_results)
        reranked       == IF cfg.reranker_enabled /\ fused # <<>>
                          THEN rerank(query, fused, rerank_ok) ELSE fused
    IN SearchResponse(query, Take(reranked, top_k), FALSE)

----------------------------------------------------------------------------
(* The query cache *)

CacheKeys(c) == {c[i].key : i \in 1..Len(c)}

CacheIndex(c, query) == CHOOSE i \in 1..Len(c) : c[i].key = query

CacheGet(c, query) == c[CacheIndex(c, query)].resp

\* self._cache[query] = response
CachePut(c, query, resp) ==
    IF query \in CacheKeys(c)
    THEN [c EXCEPT ![CacheIndex(c, query)] = [key |-> query, resp |-> resp]]
    ELSE Append(c, [key |-> query, resp |-> resp])

\* The loop of _check_cache over the first n entries: <<best_sim, best>>,
\* best being the position of best_resp (0 for None).
RECURSIVE CacheScan(_, _, _)
CacheScan(c, q_emb, n) ==
    IF n = 0 THEN <<0, 0>>
    ELSE LET prev == CacheScan(c, q_emb, n - 1)
             sim  == Cosine(q_emb, EmbedQuery(c[n].key))
         IN IF sim > prev[1] THEN <<sim, n>> ELSE prev

CheckCacheExact(c, query) ==
    IF query \in CacheKeys(c) THEN CacheIndex(c, query) ELSE 0

\* The first entry at or above the threshold instead of the most similar one.
CheckCacheSemanticFirst(c, query, embed_ok) ==
    LET near == {i \in 1..Len(c) :
                    Cosine(EmbedQuery(query), EmbedQuery(c[i].key)) >= CacheSimilarity}
    IN IF c = <<>> \/ ~embed_ok \/ near = {} THEN 0
       ELSE CHOOSE i \in near : \A j \in near : i <= j

CheckCacheSemantic(c, query, embed_ok) ==
    IF c = <<>> \/ ~embed_ok THEN 0
    ELSE LET best == CacheScan(c, EmbedQuery(query), Len(c))
         IN IF best[1] >= CacheSimilarity THEN best[2] ELSE 0

\* _check_cache: the position of the entry returned, 0 for None.
check_cache(c, query, embed_ok) ==
    IF CheckCacheExact(c, query) # 0 THEN CheckCacheExact(c, query)
    ELSE CheckCacheSemantic(c, query, embed_ok)

----------------------------------------------------------------------------
(* The engine's operations *)

Configs == [cache_enabled : BOOLEAN, reranker_enabled : BOOLEAN, top_k : {ConfigTopK}]

DefaultConfig == [cache_enabled |-> TRUE, reranker_enabled |-> TRUE, top_k |-> ConfigTopK]

TopKArgs == {<<>>} \cup {<<k>> : k \in 1..MaxTopK}

\* The record of a call: `last` after it. reranker tells whether the
\* cross-encoder could be used during a search that ran the pipeline.
Call(op) ==
    [op |-> op, raised |-> FALSE, force |-> FALSE, chunks |-> <<>>,
     query |-> "", top_k |-> <<>>, hit |-> "", resp |-> <<>>, reranker |-> ""]

\* _load_bm25_index: the ids of collection.get(), or nothing when it fails.
load_bm25_index(st, load_ok) ==
    IF load_ok THEN SelectSeq(IdOrder, LAMBDA id : id \in st) ELSE <<>>

\* MaestroEngine.__init__ and _init_db over the persisted store.
ConstructOp(db_oks, load_oks) ==
    \E db_ok \in db_oks, load_ok \in load_oks :
        /\ (~load_ok => db_ok /\ meta /\ store # {})
        /\ collection' = db_ok
        /\ fingerprints' = NoFingerprints
        /\ cache' = <<>>
        /\ indexed' = (db_ok /\ meta /\ store # {})
        /\ bm25' = IF db_ok /\ meta /\ store # {} THEN load_bm25_index(store, load_ok) ELSE <<>>
        /\ last' = Call("construct")
        /\ UNCHANGED <<store, meta, config, chunkerVars>>

\* The provider failures an environment allows in one index() call.
Failures(may_fail, chunks, coll) ==
    IF may_fail THEN FailPoints(chunks, coll) ELSE {NoFail}

\* index(paths, force) called on the engine.
IndexOp(path_args, corpora, may_fail) ==
    \E paths \in path_args, force \in BOOLEAN, corp \in corpora, del_fails \in BOOLEAN :
        /\ del_fails => may_fail /\ force /\ collection
        /\ \E fail \in Failures(may_fail, AllChunks(SkillDirs(paths), corp), collection) :
             LET r == index(Engine, paths, force, corp, del_fails, fail)
             IN /\ del_fails => r.chunks # <<>>
                /\ store' = r.store
                /\ meta' = r.meta
                /\ indexed' = r.indexed
                /\ fingerprints' = r.fingerprints
                /\ bm25' = r.bm25
                /\ last' = [Call("index") EXCEPT !.raised = r.raised, !.force = force,
                                                 !.chunks = IdSeq(r.chunks)]
        /\ UNCHANGED <<collection, cache, config, chunkerVars>>

\* _ensure_indexed's condition.
NeedsIndex(e) == ~e.indexed \/ (e.collection /\ e.store = {})

\* The flag is left as stored.
MarkFromCacheSkipped(c, hit) == c

\* cached.from_cache = True, on the object the cache holds.
MarkFromCache(c, hit) == [c EXCEPT ![hit].resp.from_cache = TRUE]

\* search(query, top_k) on engine state e with cache c: the engine state and
\* the cache it leaves, and the call's record.
search(e, c, cfg, query, top_k_arg, corp, ifail, embed_ok, rerank_ok) ==
    LET e1    == IF NeedsIndex(e) THEN index(e, {}, FALSE, corp, FALSE, ifail)
                 ELSE [store |-> e.store, meta |-> e.meta, collection |-> e.collection,
                       indexed |-> e.indexed, fingerprints |-> e.fingerprints,
                       bm25 |-> e.bm25, raised |-> FALSE, chunks |-> <<>>]
        top_k == IF top_k_arg = <<>> \/ top_k_arg[1] = 0 THEN cfg.top_k ELSE top_k_arg[1]
        exact == IF cfg.cache_enabled THEN CheckCacheExact(c, query) ELSE 0
        hit   == IF cfg.cache_enabled THEN check_cache(c, query, embed_ok) ELSE 0
        fresh == pipeline(e1, cfg, query, top_k, rerank_ok)
        call  == [Call("search") EXCEPT !.query = query, !.top_k = top_k_arg,
                                        !.chunks = IdSeq(e1.chunks)]
        eng   == [store |-> e1.store, meta |-> e1.meta, collection |-> e1.collection,
                  indexed |-> e1.indexed, fingerprints |-> e1.fingerprints,
                  bm25 |-> e1.bm25]
    IN IF e1.raised
       THEN [engine |-> eng, cache |-> c, call |-> [call EXCEPT !.raised = TRUE]]
       ELSE IF hit # 0
       THEN [engine |-> eng, cache |-> MarkFromCache(c, hit),
             call |-> [call EXCEPT !.hit = IF exact # 0 THEN "exact" ELSE "semantic",
                                   !.resp = <<MarkFromCache(c, hit)[hit].resp>>]]
       ELSE IF ~embed_ok
       THEN [engine |-> eng, cache |-> c, call |-> [call EXCEPT !.raised = TRUE]]
       ELSE [engine |-> eng,
             cache |-> IF cfg.cache_enabled THEN CachePut(c, query, fresh) ELSE c,
             call |-> [call EXCEPT !.hit = "miss", !.resp = <<fresh>>,
                                   !.reranker = IF ~cfg.reranker_enabled THEN ""
                                                ELSE IF rerank_ok THEN "ok" ELSE "down"]]

SearchOp(queries, top_ks, corpora, may_fail, embed_oks, reranker_oks) ==
    \E query \in queries, top_k \in top_ks, embed_ok \in embed_oks,
       rerank_ok \in reranker_oks, corp \in corpora :
        /\ ~NeedsIndex(Engine) => corp = CHOOSE x \in corpora : TRUE
        /\ \E ifail \in (IF NeedsIndex(Engine)
                         THEN Failures(may_fail, AllChunks(discover_skills, corp), collection)
                         ELSE {NoFail}) :
             LET r == search(Engine, cache, config, query, top_k, corp, ifail, embed_ok, rerank_ok)
             IN /\ store' = r.engine.store
                /\ meta' = r.engine.meta
                /\ indexed' = r.engine.indexed
                /\ fingerprints' = r.engine.fingerprints
                /\ bm25' = r.engine.bm25
                /\ cache' = r.cache
                /\ last' = r.call
        /\ UNCHANGED <<collection, config, chunkerVars>>

\* A fresh installation: nothing persisted, the engine just constructed.
EngineInit(cfgs, db_oks) ==
    /\ store = {}
    /\ meta = FALSE
    /\ collection \in db_oks
    /\ indexed = FALSE
    /\ fingerprints = NoFingerprints
    /\ bm25 = <<>>
    /\ cache = <<>>
    /\ config \in cfgs
    /\ last = Call("construct")

----------------------------------------------------------------------------
(* Spec: the default configuration (cache and reranker enabled) over a     *)
(* corpus whose files do not change; of the providers only the embedder    *)
(* can be down, for the length of a search call.                           *)

FullCorpus ==
    [s \in Skills |->
        IF s = "a"
        THEN <<File(".", "f.md", <<Section("s", <<Text("p", "r1")>>)>>),
               File(".", "g.md", <<Section("t", <<Text("q", "r1")>>)>>)>>
        ELSE <<File(".", "f.md", <<Section("s", <<Text("p", "r1")>>)>>)>>]

EmptyCorpus == [s \in Skills |-> <<>>]

\* Every file of the run can be read.
ChunkerReadable ==
    /\ ck_unreadable = {}
    /\ ck_errors = <<>>
    /\ ck_raised = FALSE

\* No _split_long run.
SplitIdle ==
    /\ sp_max = ChunkMaxTokens
    /\ sp_words = <<>>
    /\ sp_i = 0
    /\ sp_current = <<>>
    /\ sp_chunks = <<>>
    /\ sp_pc = "idle"

\* No run of a function without state.
FnIdle ==
    /\ fn_args = <<>>
    /\ fn_ret = <<>>
    /\ fn_pc = "idle"

ChunkerIdle ==
    /\ ck_skill = "a"
    /\ ck_tree = <<>>
    /\ ck_chunks = <<>>
    /\ ck_pc = "idle"
    /\ ChunkerReadable
    /\ SplitIdle
    /\ FnIdle

Init == EngineInit({DefaultConfig}, {TRUE}) /\ ChunkerIdle

Construct == ConstructOp({TRUE}, {TRUE})

Index == IndexOp({{}, {"a"}}, {FullCorpus, EmptyCorpus}, FALSE)

Search == SearchOp(Queries, TopKArgs, {FullCorpus}, FALSE, BOOLEAN, {TRUE})

Next == Construct \/ Index \/ Search

Spec == Init /\ [][Next]_vars

----------------------------------------------------------------------------
(* IndexSpec: the index life cycle over every corpus and with failing      *)
(* embedder and delete; the store opens and the cache is disabled.         *)

NoCacheConfig == [cache_enabled |-> FALSE, reranker_enabled |-> TRUE, top_k |-> ConfigTopK]

IndexInit == EngineInit({NoCacheConfig}, {TRUE}) /\ ChunkerIdle

Reconstruct == ConstructOp({TRUE}, BOOLEAN)

Reindex == IndexOp({{}, {"a"}, {"b"}}, Corpora, TRUE)

AutoSearch == SearchOp({"q1"}, {<<>>}, Corpora, TRUE, BOOLEAN, {TRUE})

IndexNext == Reconstruct \/ Reindex \/ AutoSearch

IndexSpec == IndexInit /\ [][IndexNext]_vars

----------------------------------------------------------------------------
(* RankSpec: the pipeline without the cache, with the reranker enabled or   *)
(* disabled, available or not, and with a vector store that may fail to     *)
(* open when the engine is constructed.                                     *)

RankConfigs == {cfg \in Configs : ~cfg.cache_enabled}

RankInit == EngineInit(RankConfigs, BOOLEAN) /\ ChunkerIdle

RankConstruct == ConstructOp(BOOLEAN, {TRUE})

RankIndex == IndexOp({{}, {"a"}}, {FullCorpus}, FALSE)

RankSearch == SearchOp(Queries, TopKArgs, {FullCorpus, EmptyCorpus}, FALSE, {TRUE}, BOOLEAN)

RankNext == RankConstruct \/ RankIndex \/ RankSearch

RankSpec == RankInit /\ [][RankNext]_vars

----------------------------------------------------------------------------
(* ChunkerSpec: the chunks index() collects from one skill directory.      *)

ChunkerTexts == {Text("p", "r1"), Text("p", "r2"), Text("q", "r1")}

ChunkerTitles == {"s", "t"}

\* One section of one window, one section of two windows, or two sections
\* of one window each.
ChunkerSectionLists ==
    {<<Section(t, <<x>>)>> : t \in ChunkerTitles, x \in ChunkerTexts}
    \cup {<<Section(t, <<x, y>>)>> : t \in ChunkerTitles, x \in ChunkerTexts, y \in ChunkerTexts}
    \cup {<<Section(t, <<x>>), Section(u, <<y>>)>> :
            t \in ChunkerTitles, u \in ChunkerTitles, x \in ChunkerTexts, y \in ChunkerTexts}

ChunkerPaths == {<<d, n>> : d \in {".", "sub"}, n \in {"f.md", ".h.md"}}

\* One file, or two files of distinct paths with one window each.
ChunkerTrees ==
    {<<File(pa[1], pa[2], secs)>> : pa \in ChunkerPaths, secs \in ChunkerSectionLists}
    \cup {<<File(pp[1][1], pp[1][2], <<Section("s", <<Text("p", "r1")>>)>>),
             File(pp[2][1], pp[2][2], <<Section(u, <<y>>)>>)>> :
            pp \in {qq \in ChunkerPaths \X ChunkerPaths : qq[1] # qq[2]},
            u \in ChunkerTitles, y \in ChunkerTexts}

ChunkerInit ==
    /\ EngineInit({DefaultConfig}, {TRUE})
    /\ ck_skill \in Skills
    /\ ck_tree \in ChunkerTrees
    /\ ck_chunks = <<>>
    /\ ck_pc = "input"
    /\ ChunkerReadable
    /\ SplitIdle
    /\ FnIdle

\* Lines 347-354 of index(): every *.md file of the directory is chunked.
ChunkSkillDir ==
    /\ ck_pc = "input"
    /\ ck_chunks' = SkillChunks(ck_skill, ck_tree)
    /\ ck_pc' = "done"
    /\ UNCHANGED <<ck_skill, ck_tree, ck_unreadable, ck_errors, ck_raised, engineVars,
                   splitVars, fnVars>>

ChunkerNext == ChunkSkillDir

ChunkerSpec == ChunkerInit /\ [][ChunkerNext]_vars

----------------------------------------------------------------------------
(* WalkSpec: lines 341-365 of index() over one skill directory some of      *)
(* whose files cannot be read.                                              *)

PathOf(f) == <<f.dir, f.name>>

\* path.read_text raises for the file.
ReadFails(f, unreadable) == PathOf(f) \in unreadable

\* skill_dir / "SKILL.md" exists.
HasSkillMd(tree) == \E k \in 1..Len(tree) : PathOf(tree[k]) = <<".", "SKILL.md">>

\* _extract_domains and _extract_description: skill_md.read_text is outside
\* their try blocks, so an unreadable SKILL.md raises out of them.
extract_domains_raises(tree, unreadable) ==
    HasSkillMd(tree) /\ <<".", "SKILL.md">> \in unreadable

\* The inner loop of index(): the chunks of the files that could be read.
SkillChunksRead(skill_name, tree, unreadable) ==
    ConcatAll([k \in 1..Len(tree) |->
        IF Hidden(tree[k].name) \/ ReadFails(tree[k], unreadable) THEN <<>>
        ELSE chunk_file(tree[k], skill_name)])

\* errors.append(f"{skill_name}/{md_file.name}: {e}") for the files that could not.
SkillErrors(skill_name, tree, unreadable) ==
    LET failed == SelectSeq(tree, LAMBDA f : ~Hidden(f.name) /\ ReadFails(f, unreadable))
    IN [k \in 1..Len(failed) |-> <<skill_name, failed[k].name>>]

WalkPaths == <<<<".", "SKILL.md">>, <<".", "f.md">>, <<"sub", "f.md">>, <<".", ".h.md">>>>

WalkFiles ==
    [k \in 1..Len(WalkPaths) |->
        File(WalkPaths[k][1], WalkPaths[k][2],
             <<Section("s", <<Text(IF k = 1 THEN "p" ELSE "q", "r1")>>)>>)]

\* Any selection of the files, in the order rglob lists them.
WalkTrees == {SelectSeq(WalkFiles, LAMBDA f : PathOf(f) \in ps) : ps \in SUBSET Range(WalkPaths)}

WalkInit ==
    /\ EngineInit({DefaultConfig}, {TRUE})
    /\ ck_skill \in Skills
    /\ ck_tree \in WalkTrees
    /\ ck_unreadable \in SUBSET {PathOf(ck_tree[k]) : k \in 1..Len(ck_tree)}
    /\ ck_chunks = <<>>
    /\ ck_errors = <<>>
    /\ ck_raised = FALSE
    /\ ck_pc = "input"
    /\ SplitIdle
    /\ FnIdle

\* One pass of the loop body of index() for the directory.
IndexSkillDir ==
    /\ ck_pc = "input"
    /\ ck_pc' = "done"
    /\ IF extract_domains_raises(ck_tree, ck_unreadable)
       THEN ck_raised' = TRUE /\ UNCHANGED <<ck_chunks, ck_errors>>
       ELSE /\ ck_raised' = FALSE
            /\ ck_chunks' = SkillChunksRead(ck_skill, ck_tree, ck_unreadable)
            /\ ck_errors' = SkillErrors(ck_skill, ck_tree, ck_unreadable)
    /\ UNCHANGED <<ck_skill, ck_tree, ck_unreadable, engineVars, splitVars, fnVars>>

WalkNext == IndexSkillDir

WalkSpec == WalkInit /\ [][WalkNext]_vars

----------------------------------------------------------------------------
(* ExpandSpec: ConceptGraph.expand on a part of the Swift concept graph.    *)

MaxQueryWords == 2

MaxExpansions == 3

\* min_weight of expand, in tenths.
MinWeight == 5

\* add_relation calls of get_swift_concept_graph, weights in tenths.
Relations ==
    << <<"sendable", "actor isolation", 10>>, <<"sendable", "data race", 10>>,
       <<"sendable", "nonisolated", 7>>, <<"actor", "actor isolation", 10>>,
       <<"actor", "sendable", 9>>, <<"actor", "nonisolated", 8>>,
       <<"actor", "async", 7>>, <<"@mainactor", "viewmodel", 7>>,
       <<"@mainactor", "actor isolation", 9>>, <<"async", "await", 10>>,
       <<"viewmodel", "@observable", 9>>, <<"viewmodel", "@mainactor", 8>> >>

\* add_alias calls of get_swift_concept_graph.
Aliases == [t \in {"vm", "mainactor"} |-> IF t = "vm" THEN "viewmodel" ELSE "@mainactor"]

QueryWords == {"Actor", "sendable", "vm", "mainactor", "async", "warning"}

\* str.lower on the words of the model.
Lower(w) == IF w = "Actor" THEN "actor" ELSE w

\* re.findall(r"[@#]?\w+", query.lower()) as a set.
QueryTokenSet(query) == {Lower(query[i]) : i \in 1..Len(query)}

\* self.aliases.get(token, token)
Resolve(token) == IF token \in DOMAIN Aliases THEN Aliases[token] ELSE token

Resolved(tokens) == {Resolve(t) : t \in tokens}

\* self.edges[concept]: add_relation appends to both ends.
EdgesOf(concept) ==
    ConcatAll([k \in 1..Len(Relations) |->
        (IF Relations[k][1] = concept THEN << <<Relations[k][2], Relations[k][3]>> >> ELSE <<>>)
        \o (IF Relations[k][2] = concept THEN << <<Relations[k][1], Relations[k][3]>> >> ELSE <<>>)])

\* _collect_neighbors with depth 1 for the tokens in the given order: the
\* neighbours in the order the dict receives them.
NeighbourKeys(order) ==
    Dedup(ConcatAll([k \in 1..Len(order) |->
        LET es   == EdgesOf(order[k])
            kept == SelectSeq(es, LAMBDA e : e[2] >= MinWeight)
        IN [j \in 1..Len(kept) |-> kept[j][1]]]))

\* candidates[neighbor] = max(current, weight)
NeighbourWeight(order, c) ==
    LET mine == {e[2] : e \in {x \in UNION {Range(EdgesOf(order[k])) : k \in 1..Len(order)} :
                                   x[1] = c /\ x[2] >= MinWeight}}
    IN IF mine = {} THEN 0 ELSE CHOOSE w \in mine : \A v \in mine : w >= v

\* Only the tokens as typed are removed.
ExcludedTyped(tokens) == tokens

\* for token in resolved | query_tokens: candidates.pop(token, None)
Excluded(tokens) == Resolved(tokens) \cup tokens

\* expand(query, max_expansions); order is the order in which the set
\* `resolved` is iterated.
expand(query, max_expansions, order) ==
    LET tokens == QueryTokenSet(query)
        keys   == SelectSeq(NeighbourKeys(order), LAMBDA c : c \notin Excluded(tokens))
        weight == [c \in Range(keys) |-> NeighbourWeight(order, c)]
    IN Take(SortDesc(keys, weight), max_expansions)

\* The orders a set can be iterated in.
Orders(S) == {o \in [1..Cardinality(S) -> S] : \A i, j \in 1..Cardinality(S) : i # j => o[i] # o[j]}

ExpandInit ==
    /\ EngineInit({DefaultConfig}, {TRUE})
    /\ ck_skill = "a" /\ ck_tree = <<>> /\ ck_chunks = <<>> /\ ck_pc = "idle"
    /\ ChunkerReadable
    /\ SplitIdle
    /\ fn_args \in [query : UNION {[1..n -> QueryWords] : n \in 0..MaxQueryWords},
                    max_expansions : 0..MaxExpansions]
    /\ fn_ret = <<>>
    /\ fn_pc = "call"

Expand ==
    /\ fn_pc = "call"
    /\ \E order \in Orders(Resolved(QueryTokenSet(fn_args.query))) :
          fn_ret' = expand(fn_args.query, fn_args.max_expansions, order)
    /\ fn_pc' = "done"
    /\ UNCHANGED <<fn_args, engineVars, ck_skill, ck_tree, ck_chunks, ck_pc,
                   ck_unreadable, ck_errors, ck_raised, splitVars>>

ExpandNext == Expand

ExpandSpec == ExpandInit /\ [][ExpandNext]_vars

----------------------------------------------------------------------------
(* SplitSpec: Chunker._split_long, one word of its loop at a time. The      *)
(* words of the section body are numbered; the function never looks at them. *)

MaxWords == 56

MaxOver == 2

\* The overlap of current[-50:]
SplitOverlap == 50

\* max_tokens of the runs: small ones, and those around the overlap.
SplitMaxTokens == {1, 2} \cup (SplitOverlap..(SplitOverlap + MaxOver))

\* current[-50:]
split_overlap(current) ==
    SubSeq(current, Max(Len(current) - SplitOverlap, 0) + 1, Len(current))

SplitInit ==
    /\ EngineInit({DefaultConfig}, {TRUE})
    /\ ck_skill = "a" /\ ck_tree = <<>> /\ ck_chunks = <<>> /\ ck_pc = "idle"
    /\ ChunkerReadable
    /\ FnIdle
    /\ sp_max \in SplitMaxTokens
    /\ sp_words \in {[k \in 1..n |-> k] : n \in 0..MaxWords}
    /\ sp_i = 0
    /\ sp_current = <<>>
    /\ sp_chunks = <<>>
    /\ sp_pc = "input"

SplitFrame == UNCHANGED <<sp_max, sp_words, engineVars, fnVars, ck_skill, ck_tree,
                          ck_chunks, ck_pc, ck_unreadable, ck_errors, ck_raised>>

\* Lines 271-274: a body of at most max_tokens words is one window, or none.
SplitShort ==
    /\ sp_pc = "input"
    /\ IF Len(sp_words) <= sp_max
       THEN /\ sp_chunks' = IF sp_words # <<>> THEN <<sp_words>> ELSE <<>>
            /\ sp_pc' = "done"
       ELSE /\ sp_chunks' = <<>>
            /\ sp_pc' = "loop"
    /\ UNCHANGED <<sp_i, sp_current>>
    /\ SplitFrame

\* Lines 275-279: one word of the loop.
SplitWord ==
    /\ sp_pc = "loop"
    /\ sp_i < Len(sp_words)
    /\ sp_i' = sp_i + 1
    /\ LET current == Append(sp_current, sp_words[sp_i + 1])
       IN IF Len(current) >= sp_max
          THEN /\ sp_chunks' = Append(sp_chunks, current)
               /\ sp_current' = split_overlap(current)
          ELSE /\ sp_current' = current
               /\ UNCHANGED sp_chunks
    /\ UNCHANGED sp_pc
    /\ SplitFrame

\* Lines 280-282: what is left in current is the last window.
SplitRest ==
    /\ sp_pc = "loop"
    /\ sp_i = Len(sp_words)
    /\ sp_chunks' = IF sp_current # <<>> THEN Append(sp_chunks, sp_current) ELSE sp_chunks
    /\ sp_pc' = "done"
    /\ UNCHANGED <<sp_i, sp_current>>
    /\ SplitFrame

SplitNext == SplitShort \/ SplitWord \/ SplitRest

SplitSpec == SplitInit /\ [][SplitNext]_vars

----------------------------------------------------------------------------
(* MatchSpec: _match_skills over registries of up to MaxSkills skills. A     *)
(* skill is its position in the registry; its entry is <<>> when it has no   *)
(* embedding and <<sim>> otherwise, sim the cosine to the query in           *)
(* thousandths.                                                              *)

MaxSkills == 9

\* The first skills take any of these entries, the others one of the last two.
MatchEntries == << <<>>, <<-500>>, <<599>>, <<600>>, <<1000>> >>

MatchHeads == UNION {[1..n -> Range(MatchEntries)] : n \in 0..3}

MatchTails == UNION {[1..n -> {<<600>>, <<1000>>}] : n \in 0..(MaxSkills - 3)}

MatchRegistries ==
    {h \o t : h \in MatchHeads, t \in {u \in MatchTails : u = <<>>}}
    \cup {h \o t : h \in [1..3 -> Range(MatchEntries)], t \in MatchTails}

\* _match_skills on a registry given by its entries.
match_registry(reg) ==
    LET names  == SelectSeq([i \in 1..Len(reg) |-> i], LAMBDA i : reg[i] # <<>>)
        scores == [i \in 1..Len(reg) |-> IF reg[i] = <<>> THEN 0 ELSE reg[i][1]]
    IN IF names = <<>> THEN <<>> ELSE match_scores(names, scores)

MatchInit ==
    /\ EngineInit({DefaultConfig}, {TRUE})
    /\ ck_skill = "a" /\ ck_tree = <<>> /\ ck_chunks = <<>> /\ ck_pc = "idle"
    /\ ChunkerReadable
    /\ SplitIdle
    /\ fn_args \in MatchRegistries
    /\ fn_ret = <<>>
    /\ fn_pc = "call"

FnFrame == UNCHANGED <<fn_args, engineVars, ck_skill, ck_tree, ck_chunks, ck_pc,
                       ck_unreadable, ck_errors, ck_raised, splitVars>>

MatchSkills ==
    /\ fn_pc = "call"
    /\ fn_ret' = match_registry(fn_args)
    /\ fn_pc' = "done"
    /\ FnFrame

MatchNext == MatchSkills

MatchSpec == MatchInit /\ [][MatchNext]_vars

----------------------------------------------------------------------------
(* McpSpec: the search_skills tool of the MCP server over an engine with    *)
(* the default configuration whose pipeline has fused a given number of     *)
(* candidates (at most 2 * reranker_candidates), named by their rank.       *)

MaxFused == 17

MaxTopKArg == 17

MaxNegTopK == 2

\* args.get("top_k", 7)
McpDefaultTopK == 7

\* min(..., 15)
McpTopKCap == 15

\* top_k = top_k or self.config.top_k
engine_top_k(top_k) == IF top_k = 0 THEN ConfigTopK ELSE top_k

\* The cap is applied without a lower limit.
mcp_top_k(arg) == Min(IF arg = <<>> THEN McpDefaultTopK ELSE arg[1], McpTopKCap)

\* _handle("search_skills"): the top_k passed to engine.search and the results
\* of the response, final = fused[:top_k].
handle_search_skills(arg, fused) ==
    [top_k   |-> mcp_top_k(arg),
     results |-> Take(fused, engine_top_k(mcp_top_k(arg)))]

McpInit ==
    /\ EngineInit({DefaultConfig}, {TRUE})
    /\ ck_skill = "a" /\ ck_tree = <<>> /\ ck_chunks = <<>> /\ ck_pc = "idle"
    /\ ChunkerReadable
    /\ SplitIdle
    /\ fn_args \in [top_k : {<<>>} \cup {<<k>> : k \in (0 - MaxNegTopK)..MaxTopKArg},
                    fused : {[r \in 1..n |-> r] : n \in 0..MaxFused}]
    /\ fn_ret = <<>>
    /\ fn_pc = "call"

McpSearchSkills ==
    /\ fn_pc = "call"
    /\ fn_ret' = handle_search_skills(fn_args.top_k, fn_args.fused)
    /\ fn_pc' = "done"
    /\ FnFrame

McpNext == McpSearchSkills

McpSpec == McpInit /\ [][McpNext]_vars

----------------------------------------------------------------------------
(* ContextSpec: SearchResponse.as_context over responses of up to           *)
(* MaxResults results. A result is the lengths of the fields of its chunk;  *)
(* the context is whether it has the title line, and the positions of the   *)
(* results whose blocks follow it.                                          *)

MaxResults == 3

MaxContextTokens == 20

\* "## [" + "] " + " — " + "\n\n" + "\n\n---\n"
BlockOverhead == 17

ContextChunks == [skill : {1}, file : {4}, section : {0, 1}, text : {0, 2, 14}]

\* len(block)
block_len(r) == BlockOverhead + r.skill + r.file + r.section + r.text

\* t = len(block) // 4
block_tokens(r) == block_len(r) \div 4

\* The loop that skips a block that does not fit and goes on.
RECURSIVE context_blocks_skipping(_, _, _, _)
context_blocks_skipping(results, i, used, max_tokens) ==
    IF i > Len(results) THEN <<>>
    ELSE IF used + block_tokens(results[i]) > max_tokens
         THEN context_blocks_skipping(results, i + 1, used, max_tokens)
         ELSE <<i>> \o context_blocks_skipping(results, i + 1,
                           used + block_tokens(results[i]), max_tokens)

\* for r in self.results: ... if used + t > max_tokens: break
RECURSIVE context_blocks(_, _, _, _)
context_blocks(results, i, used, max_tokens) ==
    IF i > Len(results) THEN <<>>
    ELSE IF used + block_tokens(results[i]) > max_tokens
         THEN <<>>
         ELSE <<i>> \o context_blocks(results, i + 1,
                           used + block_tokens(results[i]), max_tokens)

as_context(results, max_tokens) ==
    IF results = <<>>
    THEN [title |-> FALSE, blocks |-> <<>>]
    ELSE [title |-> TRUE, blocks |-> context_blocks(results, 1, 0, max_tokens)]

ContextInit ==
    /\ EngineInit({DefaultConfig}, {TRUE})
    /\ ck_skill = "a" /\ ck_tree = <<>> /\ ck_chunks = <<>> /\ ck_pc = "idle"
    /\ ChunkerReadable
    /\ SplitIdle
    /\ fn_args \in [results : UNION {[1..n -> ContextChunks] : n \in 0..MaxResults},
                    max_tokens : -1..MaxContextTokens]
    /\ fn_ret = <<>>
    /\ fn_pc = "call"

AsContext ==
    /\ fn_pc = "call"
    /\ fn_ret' = as_context(fn_args.results, fn_args.max_tokens)
    /\ fn_pc' = "done"
    /\ FnFrame

ContextNext == AsContext

ContextSpec == ContextInit /\ [][ContextNext]_vars

----------------------------------------------------------------------------
(* Properties *)

Returned == last.op = "search" /\ ~last.raised /\ last.resp # <<>>

RequestedTopK == IF last.top_k = <<>> THEN config.top_k ELSE last.top_k[1]

\* C1: every search(Q, top_k) returns at most top_k results (the configured
\* top_k when none is given), also when the response comes from the cache.
C1_ResultsAtMostTopK ==
    Returned => Len(last.resp[1].results) <= RequestedTopK

\* C2: every response held in the query cache has from_cache = false.
C2_StoredNotFromCache ==
    \A i \in 1..Len(cache) : ~cache[i].resp.from_cache

ChunkCount(fps, n) == IF n \in DOMAIN fps THEN fps[n].chunk_count ELSE 0

SumChunkCounts(fps) == SumSeq([i \in 1..Len(SkillOrder) |-> ChunkCount(fps, SkillOrder[i])])

\* C3: after an index() call that returned, and after construction over a
\* persisted store, the chunk counts of the registry add up to the number of
\* entries of the vector store.
C3_CountsMatchStore ==
    (last.op \in {"index", "construct"} /\ ~last.raised)
        => SumChunkCounts(fingerprints) = Cardinality(store)

\* C4: the state a search runs its pipeline on has the same chunk ids in the
\* BM25 index and in the vector store.
C4_Bm25MatchesStore ==
    (last.op = "search" /\ ~last.raised) => Range(bm25) = store

\* C5: in the state a search runs its pipeline on, every chunk of the vector
\* store has its skill in the fingerprint registry.
C5_ChunkSkillsRegistered ==
    (last.op = "search" /\ ~last.raised)
        => \A id \in store : SkillOfId(id) \in DOMAIN fingerprints

SameChunks(st, ids, fps) ==
    /\ Range(ids) = st
    /\ \A n \in Skills : ChunkCount(fps, n) = Cardinality({id \in st : SkillOfId(id) = n})

\* C6: an index() call that raises leaves the BM25 index, the vector store
\* and the registry as they were; one that returns leaves the three
\* describing the same set of chunks.
C6_IndexAtomic ==
    [][last'.op = "index" =>
          IF last'.raised
          THEN store' = store /\ bm25' = bm25 /\ fingerprints' = fingerprints
          ELSE SameChunks(store', bm25', fingerprints')]_vars

\* C7: after index(paths, force = true) has returned (the store being open),
\* the vector store holds exactly the chunks that call produced.
C7_ForceReplacesStore ==
    (last.op = "index" /\ last.force /\ ~last.raised /\ collection)
        => store = Range(last.chunks)

\* C8: the chunks collected from one skill directory have pairwise distinct
\* ids.
C8_ChunkIdsDistinct ==
    ck_pc = "done" =>
        \A i \in 1..Len(ck_chunks), j \in 1..Len(ck_chunks) :
            i # j => ck_chunks[i].id # ck_chunks[j].id

\* C9: while the engine lives, a query stored in the cache stays there with
\* the results stored for it, whatever is indexed or searched; and a search(Q)
\* that returns while Q is a key of the cache returns from_cache = true and
\* the results stored for Q.
C9_ExactHitReturnsStored ==
    [][\A q \in CacheKeys(cache) :
          /\ last'.op # "construct"
                => /\ q \in CacheKeys(cache')
                   /\ CacheGet(cache', q).results = CacheGet(cache, q).results
          /\ (last'.op = "search" /\ ~last'.raised /\ last'.query = q)
                => /\ last'.hit = "exact"
                   /\ last'.resp # <<>>
                   /\ last'.resp[1].from_cache
                   /\ last'.resp[1].results = CacheGet(cache, q).results]_vars

C9_Witness ==
    /\ last.op = "search" /\ last.hit = "exact"
    /\ Len(cache) >= 2
    /\ last.resp[1].from_cache
    /\ last.resp[1].results # <<>>
    /\ last.query = cache[1].key

Similarity(q, cached_q) == Cosine(EmbedQuery(q), EmbedQuery(cached_q))

MaxSimilarity(c, q) ==
    CHOOSE m \in {Similarity(q, c[i].key) : i \in 1..Len(c)} :
        \A i \in 1..Len(c) : m >= Similarity(q, c[i].key)

\* C10: a search(Q2) that returns while Q2 is not a key of the non-empty
\* cache hands back, with from_cache = true, the response stored for a cached
\* query of the largest similarity when that similarity is at least
\* cache_similarity, and otherwise runs the pipeline, from_cache = false, and
\* stores the response under Q2.
C10_SemanticHitOrMiss ==
    [][(/\ last'.op = "search" /\ ~last'.raised
        /\ cache # <<>> /\ last'.query \notin CacheKeys(cache))
          => /\ last'.resp # <<>>
             /\ IF MaxSimilarity(cache, last'.query) >= CacheSimilarity
                THEN /\ last'.hit = "semantic"
                     /\ last'.resp[1].from_cache
                     /\ \E i \in 1..Len(cache) :
                          /\ Similarity(last'.query, cache[i].key)
                                = MaxSimilarity(cache, last'.query)
                          /\ last'.resp[1].query = cache[i].key
                          /\ last'.resp[1].results = cache[i].resp.results
                          /\ last'.resp[1] = cache'[i].resp
                     /\ CacheKeys(cache') = CacheKeys(cache)
                ELSE /\ last'.hit = "miss"
                     /\ ~last'.resp[1].from_cache
                     /\ last'.resp[1].query = last'.query
                     /\ last'.query \in CacheKeys(cache')
                     /\ CacheGet(cache', last'.query) = last'.resp[1]]_vars

\* A semantic hit with two cached queries above the threshold, the second
\* stored being the more similar.
C10_Witness ==
    /\ last.op = "search" /\ last.hit = "semantic"
    /\ Len(cache) = 2
    /\ last.query \notin CacheKeys(cache)
    /\ last.resp[1].from_cache
    /\ \A i \in 1..2 : Similarity(last.query, cache[i].key) >= CacheSimilarity
    /\ last.resp[1].query = cache[2].key

Ran == last.op = "search" /\ ~last.raised /\ last.hit = "miss"

Results == last.resp[1].results

\* The fused list of the search just made, recomputed on the state it left.
Fused == fused_candidates(Engine, config, last.query, RequestedTopK)

ResultIds(rs) == [i \in 1..Len(rs) |-> rs[i].id]

\* C11: after a search that ran the pipeline with a working reranker, every
\* result's final_score is its rerank_score, the cross-encoder's score of its
\* chunk; the results are in non-increasing order of that score; and they are
\* the top_k best-scored of all fused candidates.
C11_RerankedBeforeCut ==
    (Ran /\ last.reranker = "ok") =>
        /\ Len(Results) = Min(RequestedTopK, Len(Fused))
        /\ Range(ResultIds(Results)) \subseteq Range(ResultIds(Fused))
        /\ \A i \in 1..Len(Results) :
              /\ Results[i].rerank_score = <<PredictScore(last.query, Results[i].id)>>
              /\ Results[i].final_score = [num |-> Results[i].rerank_score[1], den |-> 1]
              /\ \A j \in (i + 1)..Len(Results) :
                    Results[i].rerank_score[1] >= Results[j].rerank_score[1]
              /\ \A k \in 1..Len(Fused) :
                    Fused[k].id \notin Range(ResultIds(Results))
                        => PredictScore(last.query, Fused[k].id) <= Results[i].rerank_score[1]

C11_Witness ==
    /\ Ran /\ last.reranker = "ok"
    /\ Len(Fused) = 3 /\ Len(Results) = 1
    /\ Results[1].id # Fused[1].id

RankFraction(rank) ==
    IF rank = <<>> THEN [num |-> 0, den |-> 1] ELSE [num |-> 1, den |-> 60 + rank[1] + 1]

\* C12: with reranking disabled, the results of a search that ran the
\* pipeline are in non-increasing order of final_score, each final_score is
\* the sum of 1 / (60 + rank + 1) over the result's semantic and lexical
\* ranks, and no result has a rerank_score.
C12_RrfOrderWithoutReranker ==
    (Ran /\ ~config.reranker_enabled) =>
        \A i \in 1..Len(Results) :
            LET f == Results[i].final_score
                a == RankFraction(Results[i].semantic_rank)
                b == RankFraction(Results[i].bm25_rank)
            IN /\ Results[i].rerank_score = <<>>
               /\ f.num * (a.den * b.den) = f.den * (a.num * b.den + b.num * a.den)
               /\ f.num > 0
               /\ \A j \in (i + 1)..Len(Results) :
                     f.num * Results[j].final_score.den >= Results[j].final_score.num * f.den

C12_Witness ==
    /\ Ran /\ ~config.reranker_enabled
    /\ Len(Results) = 3
    /\ \E i \in 1..3 : Results[i].semantic_rank # <<>> /\ Results[i].bm25_rank # <<>>
    /\ \E i \in 1..3 : Results[i].semantic_rank = <<>> \/ Results[i].bm25_rank = <<>>

\* C13: no search raises because the reranker is down, and a search that ran
\* the pipeline with the reranker enabled but failing returns the fused list,
\* in its order, cut to top_k: not empty when the fused list is not.
C13_RerankerFailureKeepsRrf ==
    /\ last.op = "search" => ~last.raised
    /\ (Ran /\ last.reranker = "down") =>
          /\ Results = Take(Fused, RequestedTopK)
          /\ Fused # <<>> => Results # <<>>

C13_Witness ==
    /\ Ran /\ last.reranker = "down"
    /\ Len(Fused) = 3 /\ Len(Results) = 1

\* C20: an engine whose vector store could not be opened answers every
\* search without raising and with no results.
C20_NoStoreNoResults ==
    (last.op = "search" /\ ~collection) =>
        /\ ~last.raised
        /\ last.resp # <<>>
        /\ last.resp[1].results = <<>>

C20_Witness ==
    /\ last.op = "search" /\ ~collection
    /\ store # {}
    /\ bm25_score(bm25, last.query, RerankerCandidates) # <<>>

\* C14: index() over a skill directory with unreadable markdown files does
\* not raise, lists every one of them in errors, and collects the chunks of
\* all the files it could read.
C14_IoErrorsCollected ==
    ck_pc = "done" =>
        /\ ~ck_raised
        /\ \A k \in 1..Len(ck_tree) :
              (~Hidden(ck_tree[k].name) /\ PathOf(ck_tree[k]) \in ck_unreadable)
                  => <<ck_skill, ck_tree[k].name>> \in Range(ck_errors)
        /\ \A k \in 1..Len(ck_tree) :
              (~Hidden(ck_tree[k].name) /\ PathOf(ck_tree[k]) \notin ck_unreadable)
                  => \E i \in 1..Len(ck_chunks) : ck_chunks[i].file_path = PathOf(ck_tree[k])

\* C15: expand(query, max_expansions) returns at most max_expansions terms,
\* none of them a token of the lowercased query or what such a token is an
\* alias of.
C15_ExpandExcludesQuery ==
    fn_pc = "done" =>
        /\ Len(fn_ret) <= fn_args.max_expansions
        /\ \A i \in 1..Len(fn_ret), j \in 1..Len(fn_args.query) :
              /\ fn_ret[i] # Lower(fn_args.query[j])
              /\ Lower(fn_args.query[j]) \in DOMAIN Aliases
                    => fn_ret[i] # Aliases[Lower(fn_args.query[j])]

\* The query names, through an alias, a neighbour of its other word, and the
\* list was cut.
C15_Witness ==
    /\ fn_pc = "done"
    /\ fn_args.query = <<"vm", "mainactor">>
    /\ fn_args.max_expansions = 1
    /\ Len(fn_ret) = 1

\* C16: every window _split_long emits has at least one and at most
\* max_tokens words.
C16_WindowsWithinMax ==
    sp_pc = "done" =>
        \A k \in 1..Len(sp_chunks) : Len(sp_chunks[k]) >= 1 /\ Len(sp_chunks[k]) <= sp_max

DropOverlap(w) == SubSeq(w, SplitOverlap + 1, Len(w))

LastOverlap(w) == SubSeq(w, Len(w) - SplitOverlap + 1, Len(w))

\* C17: with max_tokens above 50, a body of more than max_tokens words gives
\* windows each of which ends with the 50 words the next one starts with, and
\* the first window followed by the others without their first 50 words is
\* the body; max_tokens + 1 words give two windows, max_tokens words give one.
C17_OverlapAndCoverage ==
    (sp_pc = "done" /\ sp_max > SplitOverlap) =>
        /\ Len(sp_words) > sp_max =>
              /\ \A k \in 1..(Len(sp_chunks) - 1) :
                    /\ Len(sp_chunks[k]) >= SplitOverlap
                    /\ Len(sp_chunks[k + 1]) >= SplitOverlap
                    /\ LastOverlap(sp_chunks[k]) = SubSeq(sp_chunks[k + 1], 1, SplitOverlap)
              /\ sp_chunks # <<>>
              /\ sp_chunks[1] \o ConcatAll([k \in 1..(Len(sp_chunks) - 1) |->
                                               DropOverlap(sp_chunks[k + 1])]) = sp_words
        /\ Len(sp_words) = sp_max + 1 => Len(sp_chunks) = 2
        /\ Len(sp_words) = sp_max => Len(sp_chunks) = 1

MatchEmbedded == {i \in 1..Len(fn_args) : fn_args[i] # <<>>}

MatchTop == CHOOSE m \in {fn_args[i][1] : i \in MatchEmbedded} :
                \A i \in MatchEmbedded : m >= fn_args[i][1]

MatchQualifying == {i \in MatchEmbedded : 10 * fn_args[i][1] >= 6 * MatchTop}

\* C18: _match_skills returns skills that have an embedding and a similarity
\* of at least 0.6 times the highest one, without repetition, in
\* non-increasing order of similarity: all of them when they are at most 8,
\* and otherwise 8 of them that no skill left out beats.
C18_MatchSkillsThreshold ==
    fn_pc = "done" =>
        /\ MatchEmbedded = {} => fn_ret = <<>>
        /\ MatchEmbedded # {} =>
              /\ Range(fn_ret) \subseteq MatchQualifying
              /\ Len(fn_ret) = Min(8, Cardinality(MatchQualifying))
              /\ Cardinality(Range(fn_ret)) = Len(fn_ret)
              /\ \A i \in 1..Len(fn_ret), j \in 1..Len(fn_ret) :
                    i < j => fn_args[fn_ret[i]][1] >= fn_args[fn_ret[j]][1]
              /\ \A q \in MatchQualifying \ Range(fn_ret), i \in 1..Len(fn_ret) :
                    fn_args[q][1] <= fn_args[fn_ret[i]][1]

\* Nine skills qualify and eight are returned, the first of them not the
\* first of the registry, the one left out among the least similar.
C18_Witness ==
    /\ fn_pc = "done"
    /\ Cardinality(MatchQualifying) = 9
    /\ Len(fn_ret) = 8
    /\ fn_ret[1] # 1
    /\ fn_args[1] = <<600>>
    /\ 1 \in Range(fn_ret)

\* A skill without an embedding and skills below the threshold, at the
\* threshold and above it.
C18_WitnessThreshold ==
    /\ fn_pc = "done"
    /\ Len(fn_args) = 4
    /\ fn_args[1] = <<>> /\ fn_args[2] = <<599>> /\ fn_args[3] = <<600>>
    /\ fn_ret = <<4, 3>>

\* C19: whatever top_k the search_skills tool is called with, the engine is
\* passed a top_k of at most 15 and the response has at most 15 results.
C19_McpTopKCapped ==
    fn_pc = "done" => fn_ret.top_k <= 15 /\ Len(fn_ret.results) <= 15

\* The running sum of floor(len(block) / 4) over the first n results.
ContextUsed(n) == SumSeq([k \in 1..n |-> block_len(fn_args.results[k]) \div 4])

\* The longest prefix of the results whose running sum stays at most max_tokens.
ContextPrefix ==
    CHOOSE n \in 0..Len(fn_args.results) :
        /\ \A k \in 1..n : ContextUsed(k) <= fn_args.max_tokens
        /\ n < Len(fn_args.results) => ContextUsed(n + 1) > fn_args.max_tokens

\* C21: the context holds the blocks of the longest prefix of the results
\* whose running sum of floor(len(block) / 4) stays at most max_tokens, in
\* result order, and nothing of a later result; without results it is the
\* empty string.
C21_ContextIsLongestPrefix ==
    fn_pc = "done" =>
        /\ fn_ret.blocks = [k \in 1..ContextPrefix |-> k]
        /\ fn_args.results = <<>> => ~fn_ret.title

\* A block is rejected though a later block would still fit, after a block
\* whose length is no multiple of 4 was taken.
C21_Witness ==
    /\ fn_pc = "done"
    /\ Len(fn_args.results) = 3
    /\ fn_ret.blocks = <<1>>
    /\ block_len(fn_args.results[1]) % 4 # 0
    /\ ContextUsed(1) + block_len(fn_args.results[3]) \div 4 <= fn_args.max_tokens

\* C22: a search that follows a completed index() call over a non-empty
\* vector store changes neither the store nor the BM25 index nor the
\* fingerprint registry and its embeddings.
C22_SearchLeavesIndexAlone ==
    [][(/\ last.op = "index" /\ ~last.raised
        /\ store # {}
        /\ last'.op = "search")
       => UNCHANGED <<store, bm25, fingerprints>>]_vars

\* C23: for a given query, expand returns one list whatever the order in
\* which the resolved tokens of the query are visited, its terms in
\* non-increasing weight.
C23_ExpandOrderIndependent ==
    fn_pc = "done" =>
        LET orders == Orders(Resolved(QueryTokenSet(fn_args.query)))
        IN /\ \A o \in orders : fn_ret = expand(fn_args.query, fn_args.max_expansions, o)
           /\ \A o \in orders, i \in 1..Len(fn_ret), j \in 1..Len(fn_ret) :
                 i < j => NeighbourWeight(o, fn_ret[i]) >= NeighbourWeight(o, fn_ret[j])

\* C24: every chunk in the results of a search response, served from the
\* cache or computed, is in the vector store when the response is returned.
C24_ResultsInStore ==
    Returned => \A i \in 1..Len(Results) : Results[i].id \in store

\* matched_skills of the search just made, recomputed on the state it left.
Matched == match_skills(fingerprints, EmbedQuery(search_query(last.query)))

C26_MatchSkillsKeepsTop ==
    (fn_pc = "done" /\ MatchEmbedded # {}) =>
        /\ fn_ret # <<>>
        /\ fn_args[fn_ret[1]][1] = MatchTop

\* C27: the query field of the response search(Q) returns is Q, whether the
\* response was computed, found under Q or found under a similar query.
C27_ResponseNamesQuery ==
    Returned => last.resp[1].query = last.query

\* C28: every window _split_long emits after the first holds a word that the
\* window before it does not hold.
C28_WindowsBringNewWords ==
    sp_pc = "done" =>
        \A k \in 2..Len(sp_chunks) :
            \E i \in 1..Len(sp_chunks[k]) : sp_chunks[k][i] \notin Range(sp_chunks[k - 1])

====
